---- MODULE Spec2Model ----
(***************************************************************************)
(* The LeviathanBuild controller (jobrunner/internal/controller): one      *)
(* Reconcile pass is a sequence of cluster calls (get the resource, get    *)
(* the job stored under the request key, delete, create, update status).   *)
(* Each cluster call is one step of a pass, so that the cluster can change *)
(* between two calls of a pass exactly where the real cluster can.         *)
(***************************************************************************)
EXTENDS Integers, Sequences, FiniteSets, TLC

VARIABLES
    lvBuilds,   \* cluster store: request key -> LeviathanBuild object or NoObject
    jobs,       \* cluster store: job key -> batchv1.Job object or NoObject
    Scheme,     \* r.Scheme: the set of kinds the reconciler's scheme knows
    queue,      \* the controller's work queue: request keys waiting for a pass
    pass,       \* per worker: the running pass' position, locals and result
    jobOwnerIndex   \* the cache's field index jobOwnerKey: job key -> indexed values

vars == <<lvBuilds, jobs, Scheme, queue, pass, jobOwnerIndex>>

----------------------------------------------------------------------------
(* Program constants *)

\* time.Time{}.Unix(), printed with %d (the zero time, in seconds from 1970)
NominalUnix == "-62135596800"

\* time.Minute, in seconds
RequeueAfterSeconds == 60

\* jcrsv1.GroupVersion.String()
apiGVStr == "jcrs.jcrs.dev/v1"

LeviathanBuildKind == "LeviathanBuild"

----------------------------------------------------------------------------
(* The objects *)

NoObject == [absent |-> TRUE]

\* name := fmt.Sprintf("%s-%d", lvBuild.Name, time.Time{}.Unix())
JobName(name) == name \o "-" \o NominalUnix

Namespaces == {"ns1"}
BaseName == "lb"
\* two resources; the second one carries the name the controller derives
\* for the job of the first one
Names == {BaseName, JobName(BaseName)}
LvKeys == Namespaces \X Names
JobNames == Names \cup {JobName(n) : n \in Names}
JobKeys == Namespaces \X JobNames

\* the number of container images a template can ask for
MaxImage == 2
Images == 1..MaxImage

\* batchv1.JobSpec, reduced to a value field and an optional (pointer) field:
\* image is the image of the job's container; parallelism is {} for a nil
\* pointer and {n} for a pointer to n
JobSpec(image, parallelism) == [image |-> image, parallelism |-> parallelism]

\* lvBuild.Spec.JobTemplate: labels, annotations and the execution spec; one
\* template leaves parallelism unset, the others set it
Templates ==
    { [spec |-> JobSpec(1, {}), labels |-> {}, annotations |-> {}] } \cup
    { [spec |-> JobSpec(i, {1}),
       labels |-> {<<"app", "lb">>},
       annotations |-> IF i = 1 THEN {<<"note", "x">>} ELSE {}] : i \in Images }

\* LeviathanBuildStatus: active, lastJobTime ({} for nil), conditions
EmptyStatus == [active |-> {}, lastJobTime |-> {}, conditions |-> {}]
StaleStatus ==
    [active |-> {"old-job"}, lastJobTime |-> {7}, conditions |-> {<<"Available", "True">>}]
Statuses == {EmptyStatus, StaleStatus}

LeviathanBuild(key, template, status) ==
    [namespace |-> key[1], name |-> key[2], jobTemplate |-> template, status |-> status]

KeyOf(obj) == <<obj.namespace, obj.name>>

----------------------------------------------------------------------------
(* Pure helpers of the reconciler *)

OwnerReference(owner) ==
    [apiVersion |-> apiGVStr, kind |-> LeviathanBuildKind, name |-> owner.name,
     controller |-> TRUE, blockOwnerDeletion |-> TRUE]

\* ctrl.SetControllerReference(lvBuild, job, r.Scheme): fails when the scheme
\* does not know the owner's kind, or when the job already has another
\* controller; otherwise stamps the one controller-owner reference
SetControllerReference(owner, job, scheme) ==
    IF LeviathanBuildKind \notin scheme
    THEN [err |-> "NoKindRegistered", job |-> job]
    ELSE IF \E r \in job.ownerReferences : r.controller /\ r.name # owner.name
    THEN [err |-> "AlreadyOwned", job |-> job]
    ELSE [err |-> "nil",
          job |-> [job EXCEPT !.ownerReferences = @ \cup {OwnerReference(owner)}]]

\* the job named after the template's revision instead of the nominal time:
\* the job of a new revision gets a name of its own
constructJobNamedByRevision(lvBuild, scheme) ==
    LET job == [name |-> IF lvBuild.jobTemplate.spec.image = 1
                         THEN JobName(lvBuild.name) ELSE lvBuild.name,
                namespace |-> lvBuild.namespace,
                labels |-> lvBuild.jobTemplate.labels,
                annotations |-> lvBuild.jobTemplate.annotations,
                spec |-> lvBuild.jobTemplate.spec,
                ownerReferences |-> {}]
    IN  SetControllerReference(lvBuild, job, scheme)

\* the job named after the time the status records for the last job: the
\* nominal time when there is none
constructJobNamedByLastJobTime(lvBuild, scheme) ==
    LET job == [name |-> IF lvBuild.status.lastJobTime = {}
                         THEN JobName(lvBuild.name) ELSE lvBuild.name,
                namespace |-> lvBuild.namespace,
                labels |-> lvBuild.jobTemplate.labels,
                annotations |-> lvBuild.jobTemplate.annotations,
                spec |-> lvBuild.jobTemplate.spec,
                ownerReferences |-> {}]
    IN  SetControllerReference(lvBuild, job, scheme)

\* the job synthesized without the template's annotations
constructJobWithoutAnnotations(lvBuild, scheme) ==
    LET job == [name |-> JobName(lvBuild.name),
                namespace |-> lvBuild.namespace,
                labels |-> lvBuild.jobTemplate.labels,
                annotations |-> {},
                spec |-> lvBuild.jobTemplate.spec,
                ownerReferences |-> {}]
    IN  SetControllerReference(lvBuild, job, scheme)

\* constructJobForLeviathanBuild: name, namespace, copies of the template's
\* labels, annotations and spec, then the controller reference
constructJobForLeviathanBuild(lvBuild, scheme) ==
    LET job == [name |-> JobName(lvBuild.name),
                namespace |-> lvBuild.namespace,
                labels |-> lvBuild.jobTemplate.labels,
                annotations |-> lvBuild.jobTemplate.annotations,
                spec |-> lvBuild.jobTemplate.spec,
                ownerReferences |-> {}]
    IN  SetControllerReference(lvBuild, job, scheme)

\* the comparison with the job object in the place of its spec
jobSpecsEqualWholeJob(existing, desired) == existing = desired

\* the comparison that counts a job as the resource's only when it has an owner
jobSpecsEqualOwned(existing, desired) ==
    existing.spec = desired /\ existing.ownerReferences # {}

\* equality.Semantic.DeepEqual(existing.Spec, *desired): field by field; a nil
\* pointer and a pointer to a value are different
jobSpecsEqual(existing, desired) == existing.spec = desired

\* What r.Status().Update(ctx, &lvBuild) sends: the status of the object as
\* it was fetched at the start of the pass (nothing assigns lvBuild.Status)
StatusToWrite(lvBuild, existingJob) == lvBuild.status

\* metav1.GetControllerOf(job)
GetControllerOf(job) == {r \in job.ownerReferences : r.controller}

\* Owns(&batchv1.Job{}): a job event enqueues the LeviathanBuild that
\* controls the job, in the job's namespace
OwnerRequests(job) ==
    { <<job.namespace, r.name>> :
        r \in {o \in GetControllerOf(job) :
                 o.apiVersion = apiGVStr /\ o.kind = LeviathanBuildKind} }

\* the index function that takes any owner of the job for its LeviathanBuild
IndexAnyOwner(job) ==
    IF job.ownerReferences = {} THEN <<>>
    ELSE <<(CHOOSE o \in job.ownerReferences : TRUE).name>>

\* the index function of IndexField(..., jobOwnerKey, ...): the name of the
\* job's controller when that controller is a LeviathanBuild of the
\* resource type's group/version, nothing (nil) otherwise
IndexJobOwner(job) ==
    LET owners == GetControllerOf(job) IN
    IF owners = {} THEN <<>>
    ELSE LET owner == CHOOSE o \in owners : TRUE IN
         IF owner.apiVersion # apiGVStr \/ owner.kind # LeviathanBuildKind
         THEN <<>>
         ELSE <<owner.name>>

\* the jobs of the cluster that resource key k controls
OwnedJobs(js, k) == {j \in DOMAIN js : js[j] # NoObject /\ k \in OwnerRequests(js[j])}

\* the resources the queue can hold a request for
Enqueue(q, keys) == q \cup (keys \cap LvKeys)

----------------------------------------------------------------------------
(* The cluster's side of the calls *)

\* the API server fills an absent parallelism with its default when it
\* stores a job
DefaultJobSpec(spec) ==
    IF spec.parallelism = {} THEN [spec EXCEPT !.parallelism = {1}] ELSE spec

StoredJob(job) == [job EXCEPT !.spec = DefaultJobSpec(@)]

\* a create that replaces what the key holds
CreateErrReplacing(js, key) == "nil"

\* the cluster's answer to a create under key: a key holds one object
CreateErr(js, key) == IF js[key] # NoObject THEN "AlreadyExists" ELSE "nil"

\* an update that stores the whole object sent, whatever its version
UpdateWholeObjectLastWriteWins(stored, sent, stale) ==
    IF stored = NoObject THEN [err |-> "NotFound", obj |-> stored]
    ELSE [err |-> "nil", obj |-> sent]

\* the status subresource (+kubebuilder:subresource:status) answering an
\* update: it refuses an object that is not the latest version (stale), and
\* stores the status of the object sent and nothing else of it
UpdateStatusSubresource(stored, sent, stale) ==
    IF stored = NoObject THEN [err |-> "NotFound", obj |-> stored]
    ELSE IF stale THEN [err |-> "Conflict", obj |-> stored]
    ELSE [err |-> "nil", obj |-> [stored EXCEPT !.status = sent.status]]

\* the cache applies the index function to every job it holds
IndexJobs(js) ==
    [j \in DOMAIN js |-> IF js[j] = NoObject THEN <<>> ELSE IndexJobOwner(js[j])]

----------------------------------------------------------------------------
(* A pass *)

Workers == {"w1", "w2"}
\* the worker of the specifications with one pass at a time
W1 == "w1"

\* outcomes the cluster can inject into any call
Faults == {"nil", "Transient"}
NoFaults == {"nil"}

NoKey == <<"", "">>
NoResult == [requeueAfter |-> 0, err |-> "nil"]

IdlePass ==
    [pc |-> "idle", req |-> NoKey, lvBuild |-> NoObject, existingJob |-> NoObject,
     stale |-> FALSE, branch |-> "none", calls |-> <<>>, result |-> NoResult,
     owned |-> {}]

Call(verb, key, err, obj) == [verb |-> verb, key |-> key, err |-> err, obj |-> obj]

\* return ctrl.Result{...}, err
Return(p, branch, requeueAfter, err) ==
    [p EXCEPT !.pc = "done", !.branch = branch,
              !.result = [requeueAfter |-> requeueAfter, err |-> err]]

Logged(p, call) == [p EXCEPT !.calls = Append(@, call)]

\* the last call of a pass
LastCall(p) == p.calls[Len(p.calls)]

\* the pass issued a call in the step from p to q, and the call succeeded
CallSucceeded(p, q) == Len(q.calls) > Len(p.calls) /\ LastCall(q).err = "nil"

\* The dispatcher takes request k off the queue and starts a pass for it
DispatchKey(w, k) ==
    /\ pass[w].pc = "idle"
    /\ k \in queue
    /\ queue' = queue \ {k}
    /\ pass' = [pass EXCEPT ![w] = [IdlePass EXCEPT !.pc = "GetLeviathanBuild", !.req = k]]
    /\ UNCHANGED <<lvBuilds, jobs, Scheme, jobOwnerIndex>>

Dispatch(w) == \E k \in LvKeys : DispatchKey(w, k)

\* Two instances of the controller (two managers, each with its own queue
\* and one worker) work on the same resource: an instance starts a pass for
\* request k while the other one is idle or has a pass for k
StartPass(w, k) ==
    /\ pass[w].pc = "idle"
    /\ \A v \in Workers \ {w} : pass[v].pc = "idle" \/ pass[v].req = k
    /\ pass' = [pass EXCEPT ![w] = [IdlePass EXCEPT !.pc = "GetLeviathanBuild", !.req = k]]
    /\ UNCHANGED <<lvBuilds, jobs, Scheme, queue, jobOwnerIndex>>

\* the fetch that does not tell not-found from the other errors
AfterGetLeviathanBuildNotFoundIsError(q, err, found) ==
    IF err # "nil" THEN Return(q, "none", 0, err)
    ELSE [q EXCEPT !.pc = "GetJob", !.lvBuild = found]

\* if err := r.Get(ctx, req.NamespacedName, &lvBuild); err != nil { ... }
AfterGetLeviathanBuild(q, err, found) ==
    IF err = "NotFound" THEN Return(q, "Absent", 0, "nil")
    ELSE IF err # "nil" THEN Return(q, "none", 0, err)
    ELSE [q EXCEPT !.pc = "GetJob", !.lvBuild = found]

\* r.Get(ctx, req.NamespacedName, &lvBuild) by pass p on the resources lvs
\* and the jobs js, with the cluster's outcome f, and what the pass does with
\* the result; owned is the set of jobs the resource controls at this moment
\* (kept for the properties only)
GetLeviathanBuildOn(p, lvs, js, f) ==
    LET found == lvs[p.req]
        err == IF f # "nil" THEN f ELSE IF found = NoObject THEN "NotFound" ELSE "nil"
        q == Logged([p EXCEPT !.owned = OwnedJobs(js, p.req)],
                    Call("GetLeviathanBuild", p.req, err, NoObject))
    IN  AfterGetLeviathanBuild(q, err, found)

GetLeviathanBuild(w, F) ==
    /\ pass[w].pc = "GetLeviathanBuild"
    /\ \E f \in F :
          pass' = [pass EXCEPT ![w] = GetLeviathanBuildOn(pass[w], lvBuilds, jobs, f)]
    /\ UNCHANGED <<lvBuilds, jobs, Scheme, queue, jobOwnerIndex>>

\* the key of the existence check: r.Get(ctx, req.NamespacedName, existingJob)
ExistingJobKey(req) == req

\* the decision that trusts the stored status: a resource whose status lists
\* an active job is taken to have its job
AfterGetJobTrustingStatus(q, err, found) ==
    IF q.lvBuild.status.active # {}
    THEN [q EXCEPT !.pc = "UpdateStatus", !.branch = "JobMatches", !.existingJob = found]
    ELSE IF err = "NotFound" THEN [q EXCEPT !.pc = "Create", !.branch = "NoJob"]
    ELSE IF err # "nil" THEN Return(q, "none", 0, err)
    ELSE IF jobSpecsEqual(found, q.lvBuild.jobTemplate.spec)
    THEN [q EXCEPT !.pc = "UpdateStatus", !.branch = "JobMatches", !.existingJob = found]
    ELSE [q EXCEPT !.pc = "Delete", !.branch = "JobMismatched", !.existingJob = found]

\* if err != nil && apierrors.IsNotFound(err) { ... } else if err != nil { ... }
\* and if !r.jobSpecsEqual(existingJob, &lvBuild.Spec.JobTemplate.Spec) { ... }
AfterGetJob(q, err, found) ==
    IF err = "NotFound" THEN [q EXCEPT !.pc = "Create", !.branch = "NoJob"]
    ELSE IF err # "nil" THEN Return(q, "none", 0, err)
    ELSE IF jobSpecsEqual(found, q.lvBuild.jobTemplate.spec)
    THEN [q EXCEPT !.pc = "UpdateStatus", !.branch = "JobMatches", !.existingJob = found]
    ELSE [q EXCEPT !.pc = "Delete", !.branch = "JobMismatched", !.existingJob = found]

\* err := r.Get(ctx, req.NamespacedName, existingJob) by pass p on the jobs
\* js, and the comparison of the job found with the template
GetJobOn(p, js, f) ==
    LET key == ExistingJobKey(p.req)
        found == js[key]
        err == IF f # "nil" THEN f ELSE IF found = NoObject THEN "NotFound" ELSE "nil"
        q == Logged(p, Call("GetJob", key, err, NoObject))
    IN  AfterGetJob(q, err, found)

GetJob(w, F) ==
    /\ pass[w].pc = "GetJob"
    /\ \E f \in F : pass' = [pass EXCEPT ![w] = GetJobOn(pass[w], jobs, f)]
    /\ UNCHANGED <<lvBuilds, jobs, Scheme, queue, jobOwnerIndex>>

\* the delete that goes back to the existence check when it fails
AfterDeleteRetrying(q, err) ==
    IF err # "nil" THEN [q EXCEPT !.pc = "GetJob"] ELSE [q EXCEPT !.pc = "Create"]

\* if err := r.Delete(ctx, existingJob); err != nil { return ctrl.Result{}, err }
AfterDelete(q, err) ==
    IF err # "nil" THEN Return(q, q.branch, 0, err) ELSE [q EXCEPT !.pc = "Create"]

\* r.Delete(ctx, existingJob) of the mismatch path, by pass p on the jobs js
DeleteOn(p, js, f) ==
    LET key == KeyOf(p.existingJob)
        err == IF f # "nil" THEN f ELSE IF js[key] = NoObject THEN "NotFound" ELSE "nil"
        q == Logged(p, Call("Delete", key, err, NoObject))
    IN  AfterDelete(q, err)

\* the delete, and what the cluster does when it succeeds: the job is gone,
\* the index entry with it, and the job's event queues the job's owner
DeleteJob(w, F) ==
    /\ pass[w].pc = "Delete"
    /\ \E f \in F :
        LET p == pass[w]
            q == DeleteOn(p, jobs, f)
            key == LastCall(q).key
        IN  /\ pass' = [pass EXCEPT ![w] = q]
            /\ IF CallSucceeded(p, q)
               THEN /\ jobs' = [jobs EXCEPT ![key] = NoObject]
                    /\ queue' = Enqueue(queue, OwnerRequests(jobs[key]))
               ELSE UNCHANGED <<jobs, queue>>
    /\ jobOwnerIndex' = IndexJobs(jobs')
    /\ UNCHANGED <<lvBuilds, Scheme>>

\* the construction error returned to the dispatcher, as the other errors are
AfterConstructErrorPropagated(p) == Return(p, p.branch, 0, "ConstructionError")

\* if err != nil { log.Error(err, "unable to construct job from template");
\* return ctrl.Result{}, nil }
AfterConstructError(p) == Return(p, p.branch, 0, "nil")

\* the create that asks for no requeue
AfterCreateWithoutRequeue(q, err) == Return(q, q.branch, 0, err)

\* if err := r.Create(ctx, job); err != nil { return ctrl.Result{}, err }
\* return ctrl.Result{RequeueAfter: time.Minute}, nil
AfterCreate(q, err) ==
    IF err # "nil" THEN Return(q, q.branch, 0, err)
    ELSE Return(q, q.branch, RequeueAfterSeconds, "nil")

\* job, err := constructJobForLeviathanBuild(&lvBuild) and r.Create(ctx, job),
\* of the no-job path and of the mismatch path, by pass p on the jobs js; a
\* construction error ends the pass before any call
CreateOn(p, js, scheme, f) ==
    LET built == constructJobForLeviathanBuild(p.lvBuild, scheme)
        job == built.job
        key == KeyOf(job)
        err == IF f # "nil" THEN f ELSE CreateErr(js, key)
        q == Logged(p, Call("Create", key, err, job))
    IN  IF built.err # "nil" THEN AfterConstructError(p) ELSE AfterCreate(q, err)

\* the create, and what the cluster does when it succeeds: the job is stored
\* with its defaults, indexed, and its event queues its owner
CreateJob(w, F) ==
    /\ pass[w].pc = "Create"
    /\ \E f \in F :
        LET p == pass[w]
            q == CreateOn(p, jobs, Scheme, f)
            job == LastCall(q).obj
        IN  /\ Len(q.calls) > Len(p.calls) \/ f = "nil"
            /\ pass' = [pass EXCEPT ![w] = q]
            /\ IF CallSucceeded(p, q)
               THEN /\ jobs' = [jobs EXCEPT ![KeyOf(job)] = StoredJob(job)]
                    /\ queue' = Enqueue(queue, OwnerRequests(job))
               ELSE UNCHANGED <<jobs, queue>>
    /\ jobOwnerIndex' = IndexJobs(jobs')
    /\ UNCHANGED <<lvBuilds, Scheme>>

\* the status update whose error is logged and dropped
AfterUpdateStatusErrorDropped(q, err) == Return(q, q.branch, 0, "nil")

\* if err := r.Status().Update(ctx, &lvBuild); err != nil { return ctrl.Result{}, err }
\* return ctrl.Result{}, nil
AfterUpdateStatus(q, err) == Return(q, q.branch, 0, err)

\* the object that r.Status().Update(ctx, &lvBuild) sends: the resource as
\* the pass holds it
SentForStatusUpdate(p) ==
    [p.lvBuild EXCEPT !.status = StatusToWrite(p.lvBuild, p.existingJob)]

\* r.Status().Update(ctx, &lvBuild) by pass p on the resources lvs
UpdateStatusOn(p, lvs, f) ==
    LET answer == UpdateStatusSubresource(lvs[p.req], SentForStatusUpdate(p), p.stale)
        err == IF f # "nil" THEN f ELSE answer.err
        q == Logged(p, Call("UpdateStatus", p.req, err, NoObject))
    IN  AfterUpdateStatus(q, err)

\* the status update, and what the cluster does when it succeeds: the object
\* the status subresource answers is stored, and a change of it queues the
\* resource
UpdateStatus(w, F) ==
    /\ pass[w].pc = "UpdateStatus"
    /\ \E f \in F :
        LET p == pass[w]
            q == UpdateStatusOn(p, lvBuilds, f)
            new == UpdateStatusSubresource(lvBuilds[p.req], SentForStatusUpdate(p), p.stale).obj
        IN  /\ pass' = [pass EXCEPT ![w] = q]
            /\ IF CallSucceeded(p, q)
               THEN /\ lvBuilds' = [lvBuilds EXCEPT ![p.req] = new]
                    /\ queue' = IF new # lvBuilds[p.req]
                                THEN Enqueue(queue, {p.req}) ELSE queue
               ELSE UNCHANGED <<lvBuilds, queue>>
    /\ UNCHANGED <<jobs, Scheme, jobOwnerIndex>>

\* The dispatcher takes the pass' result: an error or a requeue request puts
\* the request back on the queue
Finish(w) ==
    /\ pass[w].pc = "done"
    /\ queue' = IF pass[w].result.err # "nil" \/ pass[w].result.requeueAfter > 0
                THEN Enqueue(queue, {pass[w].req}) ELSE queue
    /\ pass' = [pass EXCEPT ![w] = IdlePass]
    /\ UNCHANGED <<lvBuilds, jobs, Scheme, jobOwnerIndex>>

----------------------------------------------------------------------------
(* The users of the cluster *)

\* a user edits the template of a resource; a pass that holds a copy of the
\* resource now holds a stale one
EditTemplate(k, t) ==
    /\ lvBuilds[k] # NoObject
    /\ lvBuilds[k].jobTemplate # t
    /\ lvBuilds' = [lvBuilds EXCEPT ![k].jobTemplate = t]
    /\ pass' = [w \in Workers |->
                  IF pass[w].req = k /\ pass[w].lvBuild # NoObject
                  THEN [pass[w] EXCEPT !.stale = TRUE] ELSE pass[w]]
    /\ queue' = Enqueue(queue, {k})
    /\ UNCHANGED <<jobs, Scheme, jobOwnerIndex>>

\* a user deletes a resource
DeleteLeviathanBuild(k) ==
    /\ lvBuilds[k] # NoObject
    /\ lvBuilds' = [lvBuilds EXCEPT ![k] = NoObject]
    /\ queue' = Enqueue(queue, {k})
    /\ UNCHANGED <<jobs, Scheme, pass, jobOwnerIndex>>

\* the cluster's garbage collector deletes a job whose controller is gone
GarbageCollect(j) ==
    /\ jobs[j] # NoObject
    /\ OwnerRequests(jobs[j]) # {}
    /\ \A k \in OwnerRequests(jobs[j]) : k \in LvKeys /\ lvBuilds[k] = NoObject
    /\ jobs' = [jobs EXCEPT ![j] = NoObject]
    /\ queue' = Enqueue(queue, OwnerRequests(jobs[j]))
    /\ jobOwnerIndex' = IndexJobs(jobs')
    /\ UNCHANGED <<lvBuilds, Scheme, pass>>

\* the owner references of the jobs that other actors make: none, a
\* LeviathanBuild that owns without controlling, and controllers of another
\* kind, of another API version, or of both
OtherGVStr == "batch/v1"
OtherKind == "CronJob"

OwnerRef(apiVersion, kind, name, controller) ==
    [apiVersion |-> apiVersion, kind |-> kind, name |-> name,
     controller |-> controller, blockOwnerDeletion |-> controller]

ForeignOwners ==
    { {},
      {OwnerRef(apiGVStr, LeviathanBuildKind, BaseName, FALSE)},
      {OwnerRef(apiGVStr, OtherKind, BaseName, TRUE)},
      {OwnerRef(OtherGVStr, LeviathanBuildKind, BaseName, TRUE)},
      {OwnerRef(OtherGVStr, OtherKind, BaseName, TRUE)},
      {OwnerRef(apiGVStr, LeviathanBuildKind, BaseName, FALSE),
       OwnerRef(OtherGVStr, OtherKind, BaseName, TRUE)} }

\* the number of jobs that other actors make
MaxForeignJobs == 1

\* the jobs of the cluster that no LeviathanBuild controls
ForeignJobs(js) == {j \in DOMAIN js : js[j] # NoObject /\ OwnerRequests(js[j]) = {}}

\* a user or another controller creates a job under key j with the owner
\* references refs, running image 1; the cache indexes it as it indexes
\* every job
CreateForeignJob(j, refs) ==
    LET job == StoredJob([name |-> j[2], namespace |-> j[1],
                          labels |-> {}, annotations |-> {},
                          spec |-> JobSpec(1, {}), ownerReferences |-> refs])
    IN  /\ Cardinality(ForeignJobs(jobs)) < MaxForeignJobs
        /\ jobs[j] = NoObject
        /\ jobs' = [jobs EXCEPT ![j] = job]
        /\ jobOwnerIndex' = IndexJobs(jobs')
        /\ queue' = Enqueue(queue, OwnerRequests(job))
        /\ UNCHANGED <<lvBuilds, Scheme, pass>>

----------------------------------------------------------------------------
(* The specifications *)

\* the jobs an earlier run of the controller can have left under key j
PriorJobs(j) ==
    {NoObject} \cup
    { StoredJob(constructJobForLeviathanBuild(
          LeviathanBuild(<<j[1], n>>, t, EmptyStatus), {LeviathanBuildKind}).job) :
        n \in {m \in Names : JobName(m) = j[2]}, t \in Templates }

\* the controller starts: every resource of the cluster is queued once
Init ==
    /\ lvBuilds \in {f \in [LvKeys -> [namespace : Namespaces, name : Names,
                                        jobTemplate : Templates, status : Statuses]] :
                        \A k \in LvKeys : KeyOf(f[k]) = k}
    /\ jobs \in {f \in [JobKeys -> UNION {PriorJobs(j) : j \in JobKeys}] :
                    \A j \in JobKeys : f[j] \in PriorJobs(j)}
    /\ Scheme \in {{LeviathanBuildKind}, {}}
    /\ queue = LvKeys
    /\ pass = [w \in Workers |-> IdlePass]
    /\ jobOwnerIndex = IndexJobs(jobs)

PassStep(w, F) ==
    \/ Dispatch(w)
    \/ GetLeviathanBuild(w, F)
    \/ GetJob(w, F)
    \/ DeleteJob(w, F)
    \/ CreateJob(w, F)
    \/ UpdateStatus(w, F)
    \/ Finish(w)

Environment ==
    \/ \E k \in LvKeys, t \in Templates : EditTemplate(k, t)
    \/ \E k \in LvKeys : DeleteLeviathanBuild(k)
    \/ \E j \in JobKeys : GarbageCollect(j)

\* one pass at a time, any call may fail, users edit and delete
Next == PassStep(W1, Faults) \/ Environment

Spec == Init /\ [][Next]_vars

\* the same, from a cluster that holds no job yet: every job of a behaviour
\* is one that a pass of the behaviour created
InitFresh == Init /\ jobs = [j \in JobKeys |-> NoObject]

SpecFresh == InitFresh /\ [][Next]_vars

\* no call fails and nobody edits or deletes; the scheme knows the kind; the
\* dispatcher starts a pass for every queued request and a pass runs to its end
InitLive == Init /\ Scheme = {LeviathanBuildKind}

NextLive == PassStep(W1, NoFaults)

Fairness ==
    /\ \A k \in LvKeys : SF_vars(DispatchKey(W1, k))
    /\ WF_vars(GetLeviathanBuild(W1, NoFaults))
    /\ WF_vars(GetJob(W1, NoFaults))
    /\ WF_vars(DeleteJob(W1, NoFaults))
    /\ WF_vars(CreateJob(W1, NoFaults))
    /\ WF_vars(UpdateStatus(W1, NoFaults))
    /\ WF_vars(Finish(W1))

SpecLive == InitLive /\ [][NextLive]_vars /\ Fairness

\* any call may fail, users edit and delete, and a pass is never left in the
\* middle: the call that a pass is at is eventually made, with whatever
\* outcome
FairnessOfCalls ==
    /\ WF_vars(GetLeviathanBuild(W1, Faults))
    /\ WF_vars(GetJob(W1, Faults))
    /\ WF_vars(DeleteJob(W1, Faults))
    /\ WF_vars(CreateJob(W1, Faults))
    /\ WF_vars(UpdateStatus(W1, Faults))

\* the resources start with the status of a new resource (no step of a
\* pass depends on the status)
InitTotal == Init /\ \A k \in LvKeys : lvBuilds[k].status = EmptyStatus

SpecTotal == InitTotal /\ [][Next]_vars /\ FairnessOfCalls

\* two passes at a time, both for the same resource, their calls interleaved
\* in every way; any call may fail
PassStepConcurrent(w) ==
    \/ \E k \in LvKeys : StartPass(w, k)
    \/ GetLeviathanBuild(w, Faults)
    \/ GetJob(w, Faults)
    \/ DeleteJob(w, Faults)
    \/ CreateJob(w, Faults)
    \/ UpdateStatus(w, Faults)
    \/ Finish(w)

NextConcurrent == \E w \in Workers : PassStepConcurrent(w)

SpecConcurrent == InitTotal /\ [][NextConcurrent]_vars

\* a cluster that other actors put jobs in: the passes run on a cluster that
\* starts without jobs, and users and other controllers create jobs of
\* their own, with and without owners
InitIndex ==
    /\ InitFresh
    /\ Scheme = {LeviathanBuildKind}
    /\ \A k \in LvKeys : lvBuilds[k].status = EmptyStatus

NextIndex ==
    \/ PassStep(W1, NoFaults)
    \/ \E j \in JobKeys, refs \in ForeignOwners : CreateForeignJob(j, refs)

SpecIndex == InitIndex /\ [][NextIndex]_vars

----------------------------------------------------------------------------
(* What a finished pass did *)

Done(p) == p.pc = "done"

CallsOf(p, verb) == {i \in 1..Len(p.calls) : p.calls[i].verb = verb}

\* the calls of the pass that succeeded, by verb
Succeeded(p, verb) == {i \in CallsOf(p, verb) : p.calls[i].err = "nil"}

VerbsOf(p) == [i \in 1..Len(p.calls) |-> p.calls[i].verb]

\* the pass fetched its resource and no call of it was failed by the cluster
\* or by another actor of the cluster: what is left is the code's own doing
Undisturbed(p) ==
    /\ p.lvBuild # NoObject
    /\ p.result.err \notin {"Transient", "NotFound", "Conflict"}

\* synthesizing a job for the resource of the pass succeeds
Constructible(p) == constructJobForLeviathanBuild(p.lvBuild, Scheme).err = "nil"

\* the pass created exactly one job: the desired one, controlled by its resource
CreatedTheDesiredJob(p) ==
    /\ Cardinality(Succeeded(p, "Create")) = 1
    /\ \A i \in Succeeded(p, "Create") :
          /\ p.calls[i].obj.spec = p.lvBuild.jobTemplate.spec
          /\ OwnerRequests(p.calls[i].obj) = {p.req}
    /\ CallsOf(p, "Create") = Succeeded(p, "Create")

----------------------------------------------------------------------------
(* C1: Create-when-absent. A pass for a resource that exists and controls   *)
(* no job creates exactly one job, with the template's spec and a           *)
(* controller reference to the resource, and returns a requeue request and  *)
(* no error (no call failed by the cluster, the job constructible).         *)
C1_CreateWhenAbsent ==
    \A w \in Workers :
        LET p == pass[w] IN
        (Done(p) /\ Undisturbed(p) /\ Constructible(p) /\ p.owned = {})
            => /\ CreatedTheDesiredJob(p)
               /\ p.result = [requeueAfter |-> RequeueAfterSeconds, err |-> "nil"]

(* C2: Replace-on-mismatch. A pass that finds a job whose spec differs from *)
(* the template deletes that job and then creates exactly one job with the  *)
(* template's spec: the calls end with a successful Delete followed by the  *)
(* one successful Create (no call failed by the cluster, the job            *)
(* constructible).                                                          *)
C2_ReplaceOnMismatch ==
    \A w \in Workers :
        LET p == pass[w] IN
        (/\ Done(p) /\ Undisturbed(p) /\ Constructible(p)
         /\ p.existingJob # NoObject
         /\ p.existingJob.spec # p.lvBuild.jobTemplate.spec)
            => /\ VerbsOf(p) = <<"GetLeviathanBuild", "GetJob", "Delete", "Create">>
               /\ p.calls[3].key = KeyOf(p.existingJob)
               /\ CreatedTheDesiredJob(p)

\* the pass found, under its request key, a job whose spec equals the template
FoundMatching(p) ==
    /\ p.existingJob # NoObject
    /\ p.existingJob.spec = p.lvBuild.jobTemplate.spec

(* C3: No-op-when-matching. From the step in which a pass finds a job whose *)
(* spec equals the template, no step of the pass changes any job; the pass  *)
(* issues no Create and no Delete, issues the status update and ends with   *)
(* no requeue request.                                                      *)
C3_NoOpWhenMatching ==
    [][\A w \in Workers :
          (FoundMatching(pass'[w]) /\ pass'[w] # pass[w])
              => /\ jobs' = jobs
                 /\ CallsOf(pass'[w], "Create") = {}
                 /\ CallsOf(pass'[w], "Delete") = {}
                 /\ Done(pass'[w]) =>
                       /\ VerbsOf(pass'[w]) = <<"GetLeviathanBuild", "GetJob", "UpdateStatus">>
                       /\ pass'[w].result.requeueAfter = 0]_vars

\* a pass that found a matching job has ended with its status update accepted
C3_Witness ==
    /\ Done(pass[W1])
    /\ FoundMatching(pass[W1])
    /\ Succeeded(pass[W1], "UpdateStatus") # {}
    /\ pass[W1].result = NoResult

\* the job that a pass for the resource of p creates
DerivedKey(p) == <<p.lvBuild.namespace, JobName(p.lvBuild.name)>>

(* C4: Idempotent re-reconcile. When the job that the controller creates    *)
(* for a resource exists at the start of a pass for that resource, the      *)
(* existence check of the pass finds that job, and the pass does not return *)
(* an already-exists error (no call failed by the cluster).                 *)
C4_IdempotentReReconcile ==
    \A w \in Workers :
        LET p == pass[w] IN
        (Done(p) /\ Undisturbed(p) /\ DerivedKey(p) \in p.owned)
            => /\ p.existingJob # NoObject
               /\ KeyOf(p.existingJob) = DerivedKey(p)
               /\ p.result.err # "AlreadyExists"

\* the pass for resource k that ends in JobMatches: no job changed, status
\* updated, no requeue request and no error
MatchesPass(k) ==
    /\ Done(pass[W1])
    /\ pass[W1].req = k
    /\ pass[W1].branch = "JobMatches"
    /\ Succeeded(pass[W1], "UpdateStatus") # {}
    /\ pass[W1].result = NoResult

(* C5: Convergence. With no call failing, no edit and every queued request  *)
(* dispatched, the passes of every resource eventually reach JobMatches.    *)
C5_Convergence == \A k \in LvKeys : <>MatchesPass(k)

(* C6: Single-job invariant. A resource controls at most one live job, and  *)
(* no pass issues a Create before its Delete.                               *)
C6_SingleJob ==
    /\ \A k \in LvKeys : Cardinality(OwnedJobs(jobs, k)) <= 1
    /\ \A w \in Workers :
          \A i \in CallsOf(pass[w], "Create"), j \in CallsOf(pass[w], "Delete") : j < i

\* a pass has replaced a job: its Delete and then its Create succeeded, and
\* its resource controls a job
C6_Witness ==
    /\ Done(pass[W1])
    /\ Succeeded(pass[W1], "Delete") # {}
    /\ Succeeded(pass[W1], "Create") # {}
    /\ Cardinality(OwnedJobs(jobs, pass[W1].req)) = 1

\* the step is a call of worker w's pass
IsCall(w) == Len(pass'[w].calls) = Len(pass[w].calls) + 1

(* C7: Absent resource. When the resource of the request is not found, the  *)
(* pass ends in that step with no error and no requeue request, the fetch   *)
(* is its only call, and no job and no resource changes.                    *)
C7_AbsentResource ==
    [][\A w \in Workers :
          (/\ IsCall(w)
           /\ LastCall(pass'[w]).verb = "GetLeviathanBuild"
           /\ LastCall(pass'[w]).err = "NotFound")
              => /\ Done(pass'[w])
                 /\ pass'[w].result = NoResult
                 /\ Len(pass'[w].calls) = 1
                 /\ jobs' = jobs
                 /\ lvBuilds' = lvBuilds]_vars

\* a pass for a deleted resource has ended
C7_Witness ==
    /\ Done(pass[W1])
    /\ lvBuilds[pass[W1].req] = NoObject
    /\ LastCall(pass[W1]).verb = "GetLeviathanBuild"
    /\ LastCall(pass[W1]).err = "NotFound"

(* C8: Construction error is terminal for the pass. When the job cannot be  *)
(* constructed, the step that would create it (in the no-job path and in    *)
(* the mismatch path) ends the pass with no error and no requeue request,   *)
(* issues no call, and the pass has issued no status update.                *)
C8_ConstructionErrorTerminal ==
    [][\A w \in Workers :
          (/\ pass[w].pc = "Create"
           /\ pass'[w].pc # "Create"
           /\ ~Constructible(pass[w]))
              => /\ Done(pass'[w])
                 /\ pass'[w].result = NoResult
                 /\ pass'[w].calls = pass[w].calls
                 /\ CallsOf(pass'[w], "Create") = {}
                 /\ CallsOf(pass'[w], "UpdateStatus") = {}
                 /\ jobs' = jobs
                 /\ lvBuilds' = lvBuilds]_vars

\* a pass of the mismatch path has deleted the job and ended on a
\* construction error
C8_Witness ==
    /\ Done(pass[W1])
    /\ pass[W1].lvBuild # NoObject
    /\ ~Constructible(pass[W1])
    /\ Succeeded(pass[W1], "Delete") # {}
    /\ pass[W1].result = NoResult

\* the calls of a pass that failed with another error than not-found
Failed(p) == {i \in 1..Len(p.calls) : p.calls[i].err \notin {"nil", "NotFound"}}

(* C9: Cluster-API errors are propagated. A call of a pass that fails with  *)
(* another error than not-found is the last call of the pass, changes no    *)
(* job and no resource, and the pass returns that error with no requeue     *)
(* request.                                                                 *)
C9_ErrorsPropagated ==
    [][\A w \in Workers :
          LET q == pass'[w] IN
          /\ Failed(q) # {} =>
                /\ Failed(q) = {Len(q.calls)}
                /\ Done(q)
                /\ q.result = [requeueAfter |-> 0, err |-> LastCall(q).err]
          /\ (IsCall(w) /\ Len(q.calls) \in Failed(q)) =>
                /\ jobs' = jobs
                /\ lvBuilds' = lvBuilds]_vars

\* a pass has ended on the conflict of its status update
C9_Witness ==
    /\ Done(pass[W1])
    /\ Len(pass[W1].calls) > 0
    /\ LastCall(pass[W1]).verb = "UpdateStatus"
    /\ LastCall(pass[W1]).err = "Conflict"
    /\ pass[W1].result.err = "Conflict"

(* C10: Status is rebuilt from observed state. The status that a pass       *)
(* stores is the same whatever status the resource had before the pass: it  *)
(* depends on the job observed only.                                        *)
C10_StatusRebuilt ==
    \A w \in Workers :
        LET p == pass[w] IN
        (Done(p) /\ Succeeded(p, "UpdateStatus") # {} /\ lvBuilds[p.req] # NoObject)
            => \A s \in Statuses :
                  lvBuilds[p.req].status =
                      StatusToWrite([p.lvBuild EXCEPT !.status = s], p.existingJob)

----------------------------------------------------------------------------
\* the step that pass p takes next on the resources lvs and the jobs js when
\* the cluster's outcome is f
StepOn(p, lvs, js, scheme, f) ==
    CASE p.pc = "GetLeviathanBuild" -> GetLeviathanBuildOn(p, lvs, js, f)
      [] p.pc = "GetJob" -> GetJobOn(p, js, f)
      [] p.pc = "Delete" -> DeleteOn(p, js, f)
      [] p.pc = "Create" -> CreateOn(p, js, scheme, f)
      [] p.pc = "UpdateStatus" -> UpdateStatusOn(p, lvs, f)
      [] OTHER -> p

\* the same pass and the same resources with status s in the place of the
\* status of the pass' resource
PassWithStatus(p, s) ==
    IF p.lvBuild = NoObject THEN p ELSE [p EXCEPT !.lvBuild.status = s]

ResourcesWithStatus(lvs, k, s) ==
    IF k \notin DOMAIN lvs \/ lvs[k] = NoObject THEN lvs ELSE [lvs EXCEPT ![k].status = s]

\* all of a pass but the status it holds: position, branch, calls (with the
\* keys, the outcomes and the jobs submitted) and result
Observable(p) == PassWithStatus(p, EmptyStatus)

(* C11: Status is never an input. In every reachable state, for every       *)
(* outcome of the next call and for every status s, the step the pass takes *)
(* when its resource carries s (stored, and in the copy the pass holds)     *)
(* gives the same position, branch, calls and result as the step it takes   *)
(* with the status it has: two passes on clusters that differ in the status *)
(* only stay equal, step after step, in all but the status they carry.      *)
C11_StatusNeverInput ==
    \A w \in Workers, s \in Statuses, f \in Faults :
        LET p == pass[w] IN
        Observable(StepOn(PassWithStatus(p, s), ResourcesWithStatus(lvBuilds, p.req, s),
                          jobs, Scheme, f))
            = Observable(StepOn(p, lvBuilds, jobs, Scheme, f))

\* a pass of a resource that carries a stale status has decided on its job
\* and has replaced it
C11_Witness ==
    /\ Done(pass[W1])
    /\ pass[W1].lvBuild # NoObject
    /\ pass[W1].lvBuild.status = StaleStatus
    /\ pass[W1].branch = "JobMismatched"
    /\ Succeeded(pass[W1], "Delete") # {}
    /\ Succeeded(pass[W1], "Create") # {}

\* all of a stored resource but its status: its identity and its spec
SpecFields(obj) == IF obj = NoObject THEN NoObject ELSE [obj EXCEPT !.status = EmptyStatus]

\* the step is a step of worker w's pass: a call, or a move of its position
IsPassStep(w) == IsCall(w) \/ pass'[w].pc # pass[w].pc

(* C12: Status independence. No step of a pass, the status update included, *)
(* changes the spec fields of a resource: every resource has after the step *)
(* the spec it had before it, so the spec after a pass is the spec before   *)
(* it unless a user edited it.                                              *)
C12_StatusIndependence ==
    [][\A w \in Workers :
          IsPassStep(w) =>
              \A k \in LvKeys : SpecFields(lvBuilds'[k]) = SpecFields(lvBuilds[k])]_vars

\* a status update has been accepted and the resource has the template the
\* pass fetched
C12_Witness ==
    /\ Done(pass[W1])
    /\ Len(pass[W1].calls) > 0
    /\ LastCall(pass[W1]).verb = "UpdateStatus"
    /\ LastCall(pass[W1]).err = "nil"
    /\ lvBuilds[pass[W1].req] # NoObject
    /\ lvBuilds[pass[W1].req].jobTemplate = pass[W1].lvBuild.jobTemplate

(* C13: Deterministic naming. The name of the synthesized job is the one    *)
(* value derived from the resource's name and the nominal (zero) time:      *)
(* every pass of a resource submits its job under that name, and            *)
(* synthesizing for the resource gives that name whatever its template and  *)
(* its status are.                                                          *)
C13_DeterministicNaming ==
    /\ \A w \in Workers : \A i \in CallsOf(pass[w], "Create") :
          /\ pass[w].calls[i].obj.name = JobName(pass[w].req[2])
          /\ pass[w].calls[i].key = <<pass[w].req[1], JobName(pass[w].req[2])>>
    /\ \A k \in LvKeys, t \in Templates, s \in Statuses :
          constructJobForLeviathanBuild(LeviathanBuild(k, t, s), Scheme).job.name
              = k[2] \o "-" \o NominalUnix

\* a later pass of a resource has synthesized the name again: its Create is
\* refused because the job of an earlier pass holds that name
C13_Witness ==
    /\ Done(pass[W1])
    /\ \E i \in CallsOf(pass[W1], "Create") :
          /\ pass[W1].calls[i].err = "AlreadyExists"
          /\ jobs[pass[W1].calls[i].key] # NoObject
          /\ pass[W1].req \in OwnerRequests(jobs[pass[W1].calls[i].key])

\* the controller references of a job that name a LeviathanBuild of the
\* resource type's group/version
LeviathanBuildControllers(job) ==
    {r \in job.ownerReferences :
        r.controller /\ r.apiVersion = apiGVStr /\ r.kind = LeviathanBuildKind}

(* C14: Index correctness. The index holds, for every job of the cluster,   *)
(* the one-element list with the name of the job's controller when that     *)
(* controller is a LeviathanBuild of the resource type's group/version, and *)
(* the empty list when the job has no controller or a controller of another *)
(* kind or API version.                                                     *)
C14_IndexCorrectness ==
    \A j \in JobKeys :
        jobs[j] # NoObject =>
            /\ \A r \in LeviathanBuildControllers(jobs[j]) : jobOwnerIndex[j] = <<r.name>>
            /\ LeviathanBuildControllers(jobs[j]) = {} => jobOwnerIndex[j] = <<>>

\* the cluster holds a job that a pass created for its resource and a job
\* with owners that are not its LeviathanBuild controller, both indexed
C14_Witness ==
    \E i, j \in JobKeys :
        /\ jobs[i] # NoObject /\ jobs[j] # NoObject
        /\ LeviathanBuildControllers(jobs[i]) # {}
        /\ jobOwnerIndex[i] = <<BaseName>>
        /\ GetControllerOf(jobs[j]) # {}
        /\ jobOwnerIndex[j] = <<>>

IdentityVariants(job) ==
    { [name |-> n, namespace |-> ns, labels |-> l, annotations |-> job.annotations,
       ownerReferences |-> o, resourceVersion |-> rv, creationTimestamp |-> ts,
       spec |-> job.spec] :
        n \in Names, ns \in {"ns1", "ns2"}, l \in {{}, {<<"app", "lb">>}},
        o \in {{}, job.ownerReferences, {OwnerRef(OtherGVStr, OtherKind, BaseName, TRUE)}},
        rv \in {1, 2}, ts \in {0, 1} }

(* C16: Comparator ignores identity. When a pass is about to compare the    *)
(* job stored under its request key with its template, every job with the   *)
(* same execution spec and another name, namespace, labels, owner           *)
(* reference, resource version or creation time gets the same verdict of    *)
(* jobSpecsEqual and sends the pass to the same branch.                     *)
C16_ComparatorIgnoresIdentity ==
    \A w \in Workers :
        LET p == pass[w]
            found == jobs[ExistingJobKey(p.req)]
        IN  (p.pc = "GetJob" /\ found # NoObject) =>
                \A alt \in IdentityVariants(found) :
                    /\ jobSpecsEqual(alt, p.lvBuild.jobTemplate.spec)
                          = jobSpecsEqual(found, p.lvBuild.jobTemplate.spec)
                    /\ AfterGetJob(p, "nil", alt).branch = AfterGetJob(p, "nil", found).branch
                    /\ AfterGetJob(p, "nil", alt).pc = AfterGetJob(p, "nil", found).pc

\* a pass has judged equal a job that is not the job of its resource: it
\* has another name than the derived one and another owner
C16_Witness ==
    /\ pass[W1].pc = "UpdateStatus"
    /\ pass[W1].branch = "JobMatches"
    /\ pass[W1].existingJob # NoObject
    /\ pass[W1].existingJob.name # JobName(pass[W1].req[2])
    /\ pass[W1].req \notin OwnerRequests(pass[W1].existingJob)

(* C17: Comparator is stable under cluster defaulting. A pass that finds a  *)
(* job whose stored spec is what the cluster stores for a job created from  *)
(* the template of the pass (the template's spec with the absent fields     *)
(* defaulted) is classified JobMatches and issues no Delete.                *)
C17_StableUnderDefaulting ==
    \A w \in Workers :
        LET p == pass[w] IN
        (/\ p.lvBuild # NoObject
         /\ p.existingJob # NoObject
         /\ p.existingJob.spec = DefaultJobSpec(p.lvBuild.jobTemplate.spec))
            => /\ p.branch = "JobMatches"
               /\ CallsOf(p, "Delete") = {}

(* C18: Requeue exactly on create. A finished pass carries a requeue delay  *)
(* if and only if a Create of the pass succeeded; the delay is then one     *)
(* minute, in the no-job path and in the mismatch path alike, and comes     *)
(* with no error; every other pass (absent resource, matching job,          *)
(* construction error, propagated error) carries no delay.                  *)
C18_RequeueExactlyOnCreate ==
    \A w \in Workers :
        LET p == pass[w] IN
        Done(p) =>
            /\ p.result.requeueAfter > 0 <=> Succeeded(p, "Create") # {}
            /\ Succeeded(p, "Create") # {} =>
                  /\ p.result = [requeueAfter |-> 60, err |-> "nil"]
                  /\ p.branch \in {"NoJob", "JobMismatched"}
            /\ Succeeded(p, "Create") = {} => p.result.requeueAfter = 0

\* a pass of the mismatch path has created the replacement and asks for a
\* requeue in one minute
C18_Witness ==
    /\ Done(pass[W1])
    /\ pass[W1].branch = "JobMismatched"
    /\ LastCall(pass[W1]).verb = "Create"
    /\ LastCall(pass[W1]).err = "nil"
    /\ pass[W1].result.requeueAfter = RequeueAfterSeconds

\* the three results of a pass
TerminalReturn(r) == r.err = "nil" /\ r.requeueAfter = 0
RequeueRequest(r) == r.err = "nil" /\ r.requeueAfter > 0
PropagatedError(r) == r.err # "nil" /\ r.requeueAfter = 0

\* a pass is running
Running(p) == p.pc \notin {"idle", "done"}

(* C19: Total transitions. A pass never issues more than four cluster calls *)
(* (get, get, delete, create), a finished pass has exactly one of the three *)
(* results (terminal return, requeue request without error, propagated      *)
(* error without requeue), and a running pass finishes, whatever the        *)
(* outcomes of its calls and whatever users do to the cluster meanwhile.    *)
C19_TotalTransitions ==
    /\ [](\A w \in Workers :
            /\ Len(pass[w].calls) <= 4
            /\ Done(pass[w]) =>
                  \/ TerminalReturn(pass[w].result)
                  \/ RequeueRequest(pass[w].result)
                  \/ PropagatedError(pass[w].result))
    /\ \A w \in Workers : Running(pass[w]) ~> Done(pass[w])

\* a pass has finished on an error after four calls, the longest a pass gets
C19_Witness ==
    /\ Done(pass[W1])
    /\ Len(pass[W1].calls) = 4
    /\ PropagatedError(pass[W1].result)

\* two workers have a pass for the same resource
SameResource(a, b) == a # b /\ pass[a].req # NoKey /\ pass[a].req = pass[b].req

(* C20: Concurrent passes are safe without locking. With the calls of two   *)
(* passes for the same resource interleaved in every way, no resource       *)
(* controls two jobs at any moment; and when both passes have issued their  *)
(* Create, at most one of the two has succeeded, and the pass whose Create  *)
(* did not succeed has ended with the error of its Create and no requeue.   *)
C20_ConcurrentPasses ==
    /\ \A k \in LvKeys : Cardinality(OwnedJobs(jobs, k)) <= 1
    /\ \A a, b \in Workers :
          SameResource(a, b) =>
              \A i \in CallsOf(pass[a], "Create"), j \in CallsOf(pass[b], "Create") :
                  /\ pass[a].calls[i].err # "nil" \/ pass[b].calls[j].err # "nil"
                  /\ pass[b].calls[j].err # "nil" =>
                        /\ Done(pass[b])
                        /\ pass[b].result = [requeueAfter |-> 0, err |-> pass[b].calls[j].err]

\* two passes for the same resource, both in the no-job path, have issued
\* their Create: one has succeeded and the other one was refused
C20_Witness ==
    \E a, b \in Workers :
        /\ SameResource(a, b)
        /\ pass[a].branch = "NoJob" /\ pass[b].branch = "NoJob"
        /\ Succeeded(pass[a], "Create") # {}
        /\ CallsOf(pass[b], "Create") # {}
        /\ pass[b].result.err = "AlreadyExists"

(* C21: Deletes are scoped to the owner. Every job that a pass deletes      *)
(* carries a controller reference to the resource of the pass: a pass       *)
(* deletes no job that another resource controls and no job without owner.  *)
C21_DeletesScopedToOwner ==
    \A w \in Workers :
        LET p == pass[w] IN
        \A i \in Succeeded(p, "Delete") :
            /\ p.calls[i].key = KeyOf(p.existingJob)
            /\ p.req \in OwnerRequests(p.existingJob)

(* C22: No silent job loss. A finished pass that deleted the existing job   *)
(* has created the replacement, or has ended with a propagated error or a   *)
(* requeue request: it has not ended in a terminal success with the job     *)
(* deleted and none created.                                                *)
C22_NoSilentJobLoss ==
    \A w \in Workers :
        LET p == pass[w] IN
        (Done(p) /\ Succeeded(p, "Delete") # {})
            => \/ Succeeded(p, "Create") # {}
               \/ PropagatedError(p.result)
               \/ RequeueRequest(p.result)

====
